---- MODULE Spec2Model ----
(***************************************************************************)
(* Model of the `generate` command of Divisor (src/cli.py): the run that   *)
(* loads the configuration, fetches the source, creates the Jekyll layout, *)
(* converts the home page, walks the subpages folder converting every      *)
(* markdown file, copies the assets and reports success.                   *)
(*                                                                         *)
(* A file name is a sequence of one-character strings, a path a sequence   *)
(* of names (its components), so that endswith, splitext, join and relpath *)
(* are computed as Python computes them.                                   *)
(***************************************************************************)
EXTENDS Integers, Sequences, FiniteSets, TLC

VARIABLES
    pc,            \* position of the run inside generate
    folder,        \* cfg.content_mapping.subpages_folder
    onDisk,        \* os.path.exists(subpages_source_dir)
    tree,          \* files below subpages_source_dir, as relative paths
    root,          \* directory os.walk is currently yielding (relative)
    todo,          \* directories os.walk still has to yield, next first
    files,         \* names of `files` the inner loop has not visited yet
    calls,         \* calls of converter.convert_file, in order
    made,          \* directories created in the destination
    layout,        \* site.create_structure() has completed
    copied,        \* asset_handler.copy_assets() has returned
    copyFailures,  \* per-file failures copy_assets collected
    echoed,        \* what click.echo printed
    err            \* the exception that ended the run, "" if none

vars == <<pc, folder, onDisk, tree, root, todo, files, calls, made, layout,
          copied, copyFailures, echoed, err>>

----------------------------------------------------------------------------
(* Bounds of the model *)

MaxFiles == 2      \* files below the subpages folder
MaxDepth == 1      \* directory levels below the subpages folder

----------------------------------------------------------------------------
(* Sequences and strings *)

Front(s) == SubSeq(s, 1, Len(s) - 1)

Last(s) == s[Len(s)]

Perms(S) ==
    {s \in [1..Cardinality(S) -> S] :
        \A i, j \in 1..Cardinality(S) : i # j => s[i] # s[j]}

\* str.endswith
endswith(s, suf) ==
    /\ Len(s) >= Len(suf)
    /\ SubSeq(s, Len(s) - Len(suf) + 1, Len(s)) = suf

\* str.rfind(".") on one path component, 0 when there is no dot
LastDot(n) ==
    IF \E i \in 1..Len(n) : n[i] = "."
    THEN CHOOSE i \in 1..Len(n) :
            n[i] = "." /\ \A j \in (i + 1)..Len(n) : n[j] # "."
    ELSE 0

\* splitextName without the leading-dot rule: cut at the last dot, always
splitextNameAnyDot(n) ==
    LET d == LastDot(n) IN
    IF d # 0 THEN SubSeq(n, 1, d - 1) ELSE n

\* os.path.splitext(p)[0] on the last component: the extension starts at the
\* last dot, unless only dots precede it (a leading-dot name has no extension)
splitextName(n) ==
    LET d == LastDot(n) IN
    IF d # 0 /\ \E i \in 1..(d - 1) : n[i] # "."
    THEN SubSeq(n, 1, d - 1)
    ELSE n

splitext(p) ==
    IF p = <<>> THEN p ELSE Front(p) \o <<splitextName(Last(p))>>

\* os.path.join of a path with relative components
join(a, b) == a \o b

\* os.path.relpath(path, start) for a path below start
relpath(path, start) == SubSeq(path, Len(start) + 1, Len(path))

----------------------------------------------------------------------------
(* Names used by generate *)

DotMd == <<".", "m", "d">>

IndexMd == <<"i", "n", "d", "e", "x", ".", "m", "d">>

SourceRepo == <<"s", "o", "u", "r", "c", "e", "_", "r", "e", "p", "o">>

NonePlaceholder == <<"<", "n", "o", "n", "e", ">">>

\* configuration values of the modelled runs
destination_folder == <<"s", "i", "t", "e">>

home_page_source == <<"h", "o", "m", "e", ".", "m", "d">>

Docs == <<"d", "o", "c", "s">>

Folders == {<<>>, NonePlaceholder, Docs}

\* file and directory names the source tree is built from
FileNames ==
    { <<"a", ".", "m", "d">>,
      <<"b", ".", "m", "d">>,
      <<".", "m", "d">>,
      <<".", "m", "d", ".", "m", "d">>,
      <<"a", ".", "t", "x", "t">>,
      <<"a", "m", "d">> }

DirNames == { <<"a">> }

RECURSIVE DirsUpTo(_)
DirsUpTo(k) ==
    IF k = 0 THEN { <<>> }
    ELSE DirsUpTo(k - 1) \cup
         { Append(d, n) : d \in DirsUpTo(k - 1), n \in DirNames }

Paths == { Append(d, f) : d \in DirsUpTo(MaxDepth), f \in FileNames }

Trees == { t \in SUBSET Paths : Cardinality(t) <= MaxFiles }

----------------------------------------------------------------------------
(* Outcomes of the collaborators generate calls *)

LoadErrors == {"ConfigError"}

FetchErrors == {"FetchError"}

LayoutErrors == {"LayoutError"}

ConvertErrors == {"ReadError", "WriteError"}

MakedirsErrors == {"OSError"}

\* the non-markdown files copy_assets may fail to copy
AssetSources(t) == {p \in t : ~endswith(Last(p), DotMd)}

Success == "Website generated successfully!"

----------------------------------------------------------------------------
(* Paths computed by generate *)

\* f"source_repo/{cfg.content_mapping.home_page_source}"
HomeSource == <<SourceRepo, home_page_source>>

\* f"{cfg.content_mapping.destination_folder}/index.md"
HomeDest == <<destination_folder, IndexMd>>

\* f"source_repo/{cfg.content_mapping.subpages_folder}"
subpages_source_dir(f) == <<SourceRepo, f>>

\* f"{cfg.content_mapping.destination_folder}"
subpages_dest_dir == <<destination_folder>>

\* the guard without its comparison against the placeholder
SubpagesConfiguredNoPlaceholder(f) == f # <<>>

\* the guard of the subpage step
SubpagesConfigured(f) == f # <<>> /\ f # NonePlaceholder

\* the filter with the dot of the suffix forgotten
IsMarkdownNoDot(file) == endswith(file, <<"m", "d">>)

\* the filter of the inner loop
IsMarkdown(file) == endswith(file, DotMd)

source_path(f, r, file) == join(join(subpages_source_dir(f), r), <<file>>)

relative_path(f, r, file) ==
    relpath(source_path(f, r, file), subpages_source_dir(f))

dest_dir(f, r, file) ==
    join(subpages_dest_dir, splitext(relative_path(f, r, file)))

dest_path(f, r, file) == join(dest_dir(f, r, file), <<IndexMd>>)

Call(src, dst) == [src |-> src, dst |-> dst, base |-> SourceRepo]

\* os.makedirs(d, exist_ok=True): d and every missing parent
Makedirs(d) == {SubSeq(d, 1, k) : k \in 1..Len(d)}

\* what os.walk finds in directory d of tree t
FilesIn(t, d) == {Last(p) : p \in {q \in t : Front(q) = d}}

SubdirsIn(t, d) ==
    {SubSeq(p, 1, Len(d) + 1) :
        p \in {q \in t : Len(q) > Len(d) + 1 /\ SubSeq(q, 1, Len(d)) = d}}

----------------------------------------------------------------------------
(* The run *)

Init ==
    /\ pc = "Idle"
    /\ folder \in Folders
    /\ onDisk \in BOOLEAN
    /\ tree \in Trees
    /\ (~onDisk => tree = {})
    /\ root = <<>>
    /\ todo = <<>>
    /\ files = <<>>
    /\ calls = <<>>
    /\ made = {}
    /\ layout = FALSE
    /\ copied = FALSE
    /\ copyFailures = {}
    /\ echoed = ""
    /\ err = ""

\* an exception nothing in generate catches ends the command
Raise(e) ==
    /\ pc' = "Failed"
    /\ err' = e

\* cfg = load_config(config)
LoadConfig ==
    /\ pc = "Idle"
    /\ pc' = "ConfigLoaded"
    /\ UNCHANGED <<folder, onDisk, tree, root, todo, files, calls, made,
                   layout, copied, copyFailures, echoed, err>>

\* a configuration error that is reported and then ignored
LoadConfigFailsContinues ==
    /\ pc = "Idle"
    /\ \E e \in LoadErrors : err' = e
    /\ pc' = "ConfigLoaded"
    /\ UNCHANGED <<folder, onDisk, tree, root, todo, files, calls, made,
                   layout, copied, copyFailures, echoed>>


LoadConfigFails ==
    /\ pc = "Idle"
    /\ \E e \in LoadErrors : Raise(e)
    /\ UNCHANGED <<folder, onDisk, tree, root, todo, files, calls, made,
                   layout, copied, copyFailures, echoed>>

\* fetcher.fetch()
Fetch ==
    /\ pc = "ConfigLoaded"
    /\ pc' = "Fetched"
    /\ UNCHANGED <<folder, onDisk, tree, root, todo, files, calls, made,
                   layout, copied, copyFailures, echoed, err>>

FetchFails ==
    /\ pc = "ConfigLoaded"
    /\ \E e \in FetchErrors : Raise(e)
    /\ UNCHANGED <<folder, onDisk, tree, root, todo, files, calls, made,
                   layout, copied, copyFailures, echoed>>

\* site.create_structure()
CreateStructure ==
    /\ pc = "Fetched"
    /\ pc' = "LayoutCreated"
    /\ layout' = TRUE
    /\ UNCHANGED <<folder, onDisk, tree, root, todo, files, calls, made,
                   copied, copyFailures, echoed, err>>

CreateStructureFails ==
    /\ pc = "Fetched"
    /\ \E e \in LayoutErrors : Raise(e)
    /\ UNCHANGED <<folder, onDisk, tree, root, todo, files, calls, made,
                   layout, copied, copyFailures, echoed>>

\* converter.convert_file(home page)
ConvertHome ==
    /\ pc = "LayoutCreated"
    /\ calls' = Append(calls, Call(HomeSource, HomeDest))
    /\ pc' = "HomeConverted"
    /\ UNCHANGED <<folder, onDisk, tree, root, todo, files, made, layout,
                   copied, copyFailures, echoed, err>>

\* a home-page failure that is caught like a subpage's would be
ConvertHomeFailsContinues ==
    /\ pc = "LayoutCreated"
    /\ calls' = Append(calls, Call(HomeSource, HomeDest))
    /\ \E e \in ConvertErrors : err' = e
    /\ pc' = "HomeConverted"
    /\ UNCHANGED <<folder, onDisk, tree, root, todo, files, made, layout,
                   copied, copyFailures, echoed>>


ConvertHomeFails ==
    /\ pc = "LayoutCreated"
    /\ calls' = Append(calls, Call(HomeSource, HomeDest))
    /\ \E e \in ConvertErrors : Raise(e)
    /\ UNCHANGED <<folder, onDisk, tree, root, todo, files, made, layout,
                   copied, copyFailures, echoed>>

\* the two guards of the subpage step: not configured, or absent on disk
SkipSubpages ==
    /\ pc = "HomeConverted"
    /\ ~(SubpagesConfigured(folder) /\ onDisk)
    /\ pc' = "SubpagesConverted"
    /\ UNCHANGED <<folder, onDisk, tree, root, todo, files, calls, made,
                   layout, copied, copyFailures, echoed, err>>

\* os.walk(subpages_source_dir) starts at the top directory
StartWalk ==
    /\ pc = "HomeConverted"
    /\ SubpagesConfigured(folder) /\ onDisk
    /\ pc' = "Walking"
    /\ todo' = << <<>> >>
    /\ files' = <<>>
    /\ UNCHANGED <<folder, onDisk, tree, root, calls, made, layout, copied,
                   copyFailures, echoed, err>>

\* os.walk yields the next directory: its entries come in the order the
\* file system lists them, its subdirectories are walked before the
\* directories that were already pending
WalkDir ==
    /\ pc = "Walking"
    /\ files = <<>>
    /\ todo # <<>>
    /\ root' = Head(todo)
    /\ files' \in Perms(FilesIn(tree, Head(todo)))
    /\ \E ds \in Perms(SubdirsIn(tree, Head(todo))) :
            todo' = ds \o Tail(todo)
    /\ UNCHANGED <<pc, folder, onDisk, tree, calls, made, layout, copied,
                   copyFailures, echoed, err>>

\* a file that does not end in ".md"
SkipFile ==
    /\ pc = "Walking"
    /\ files # <<>>
    /\ ~IsMarkdown(Head(files))
    /\ files' = Tail(files)
    /\ UNCHANGED <<pc, folder, onDisk, tree, root, todo, calls, made, layout,
                   copied, copyFailures, echoed, err>>

\* the body of the inner loop for a markdown file
ConvertSubpage ==
    /\ pc = "Walking"
    /\ files # <<>>
    /\ IsMarkdown(Head(files))
    /\ made' = made \cup Makedirs(dest_dir(folder, root, Head(files)))
    /\ calls' = Append(calls, Call(source_path(folder, root, Head(files)),
                                   dest_path(folder, root, Head(files))))
    /\ files' = Tail(files)
    /\ UNCHANGED <<pc, folder, onDisk, tree, root, todo, layout, copied,
                   copyFailures, echoed, err>>

ConvertSubpageFails ==
    /\ pc = "Walking"
    /\ files # <<>>
    /\ IsMarkdown(Head(files))
    /\ made' = made \cup Makedirs(dest_dir(folder, root, Head(files)))
    /\ calls' = Append(calls, Call(source_path(folder, root, Head(files)),
                                   dest_path(folder, root, Head(files))))
    /\ \E e \in ConvertErrors : Raise(e)
    /\ UNCHANGED <<folder, onDisk, tree, root, todo, files, layout, copied,
                   copyFailures, echoed>>

MakedirsFails ==
    /\ pc = "Walking"
    /\ files # <<>>
    /\ IsMarkdown(Head(files))
    /\ \E e \in MakedirsErrors : Raise(e)
    /\ UNCHANGED <<folder, onDisk, tree, root, todo, files, calls, made,
                   layout, copied, copyFailures, echoed>>

\* os.walk is exhausted
EndWalk ==
    /\ pc = "Walking"
    /\ files = <<>>
    /\ todo = <<>>
    /\ pc' = "SubpagesConverted"
    /\ UNCHANGED <<folder, onDisk, tree, root, todo, files, calls, made,
                   layout, copied, copyFailures, echoed, err>>

\* the asset copy moved in front of the subpage step
CopyAssetsBeforeSubpages ==
    /\ pc = "HomeConverted"
    /\ copyFailures' \in SUBSET AssetSources(tree)
    /\ copied' = TRUE
    /\ pc' = "AssetsCopied"
    /\ UNCHANGED <<folder, onDisk, tree, root, todo, files, calls, made,
                   layout, echoed, err>>

\* asset_handler.copy_assets(...): per-file failures are collected by the
\* handler; generate drops whatever it returns
CopyAssets ==
    /\ pc = "SubpagesConverted"
    /\ copyFailures' \in SUBSET AssetSources(tree)
    /\ copied' = TRUE
    /\ pc' = "AssetsCopied"
    /\ UNCHANGED <<folder, onDisk, tree, root, todo, files, calls, made,
                   layout, echoed, err>>

\* click.echo("Website generated successfully!")
ReportSuccess ==
    /\ pc = "AssetsCopied"
    /\ echoed' = Success
    /\ pc' = "Done"
    /\ UNCHANGED <<folder, onDisk, tree, root, todo, files, calls, made,
                   layout, copied, copyFailures, err>>

Next ==
    \/ LoadConfig
    \/ LoadConfigFails
    \/ Fetch
    \/ FetchFails
    \/ CreateStructure
    \/ CreateStructureFails
    \/ ConvertHome
    \/ ConvertHomeFails
    \/ SkipSubpages
    \/ StartWalk
    \/ WalkDir
    \/ SkipFile
    \/ ConvertSubpage
    \/ ConvertSubpageFails
    \/ MakedirsFails
    \/ EndWalk
    \/ CopyAssets
    \/ ReportSuccess

Spec == Init /\ [][Next]_vars

----------------------------------------------------------------------------
(* Vocabulary of the properties *)

StepOrder ==
    <<"Idle", "ConfigLoaded", "Fetched", "LayoutCreated", "HomeConverted",
      "Walking", "SubpagesConverted", "AssetsCopied", "Done">>

\* the step that follows a step in the run
FollowsInOrder(a, b) ==
    \/ \E i \in 1..(Len(StepOrder) - 1) : StepOrder[i] = a /\ StepOrder[i + 1] = b
    \/ a = "Walking" /\ b = "Walking"
    \/ a = "HomeConverted" /\ b = "SubpagesConverted"

\* nothing runs after the run has ended
Terminal == pc \in {"Failed", "Done"} => UNCHANGED vars

\* the subpage step has nothing to walk
NothingToWalk == folder = <<>> \/ folder = NonePlaceholder \/ ~onDisk

\* the indices of the subpage calls
SubpageCalls == 2..Len(calls)

\* the path of a subpage call's source below the subpages root
RelOf(c) == SubSeq(c.src, 3, Len(c.src))

HasNonDot(n) == \E k \in 1..Len(n) : n[k] # "."

\* a name without its three-character ".md" suffix
Stem(n) == SubSeq(n, 1, Len(n) - 3)

Ord(c) ==
    CASE c = "." -> 46 [] c = "/" -> 47 [] c = "<" -> 60 [] c = ">" -> 62
      [] c = "_" -> 95 [] c = "a" -> 97 [] c = "b" -> 98 [] c = "c" -> 99
      [] c = "d" -> 100 [] c = "e" -> 101 [] c = "h" -> 104 [] c = "i" -> 105
      [] c = "m" -> 109 [] c = "n" -> 110 [] c = "o" -> 111 [] c = "p" -> 112
      [] c = "r" -> 114 [] c = "s" -> 115 [] c = "t" -> 116 [] c = "u" -> 117
      [] c = "x" -> 120

\* a path written out as one string, components separated by "/"
RECURSIVE Flat(_)
Flat(p) ==
    IF p = <<>> THEN <<>>
    ELSE IF Len(p) = 1 THEN p[1]
    ELSE p[1] \o <<"/">> \o Flat(Tail(p))

\* lexical (code point) order of two strings
RECURSIVE LexLeq(_, _)
LexLeq(a, b) ==
    IF a = <<>> THEN TRUE
    ELSE IF b = <<>> THEN FALSE
    ELSE IF Ord(a[1]) # Ord(b[1]) THEN Ord(a[1]) < Ord(b[1])
    ELSE LexLeq(Tail(a), Tail(b))

----------------------------------------------------------------------------
(* Properties *)

\* C1: the steps of a run happen in the fixed order config load, (fetch,)
\* layout creation, home-page conversion, subpage conversion, asset copy,
\* success report: every step moves to its successor or to Failed, the first
\* conversion is the home page's and goes to <destination>/index.md, every
\* later conversion happens during the subpage walk, the assets are copied
\* only after the walk, success is reported only after the asset copy, and
\* nothing runs after Failed.
C1_FixedStepOrder ==
    [][ /\ Terminal
        /\ pc' # "Failed" => FollowsInOrder(pc, pc')
        /\ layout' # layout => pc = "Fetched" /\ pc' = "LayoutCreated"
        /\ (calls' # calls /\ calls = <<>>) =>
                /\ pc = "LayoutCreated"
                /\ Len(calls') = 1
                /\ calls'[1].dst = <<destination_folder, IndexMd>>
        /\ (calls' # calls /\ calls # <<>>) => pc = "Walking"
        /\ copied' # copied => pc = "SubpagesConverted" /\ pc' = "AssetsCopied"
        /\ echoed' # echoed => copied /\ pc = "AssetsCopied" /\ pc' = "Done"
      ]_vars

C1_Witness ==
    /\ pc = "Done"
    /\ Len(calls) >= 3
    /\ copied
    /\ echoed = Success

C3_HomeFailureFatal ==
    [][ /\ Terminal
        /\ (pc = "LayoutCreated" /\ err' # "") =>
                /\ pc' = "Failed"
                /\ layout'
                /\ Len(calls') = 1
                /\ made' = {}
                /\ ~copied'
                /\ echoed' = ""
      ]_vars

C3_Witness ==
    /\ pc = "Failed"
    /\ err = "ReadError"
    /\ Len(calls) = 1
    /\ layout
    /\ tree # {}

\* C4 (as stated): a read failure on a subpage does not end the run.
C4_SubpageReadFailureRecoverable ==
    (err = "ReadError" /\ Len(calls) > 1) => pc # "Failed"

\* C5: with no subpages folder configured (empty or "<none>"), or with the
\* folder absent on disk, the subpage step converts nothing, creates nothing,
\* raises nothing and hands over to the asset copy; such a run has converted
\* the home page only.
C5_SubpagesSkipped ==
    [][ /\ (pc = "HomeConverted" /\ NothingToWalk) =>
                /\ pc' = "SubpagesConverted"
                /\ calls' = calls
                /\ made' = made
                /\ err' = ""
        /\ (NothingToWalk /\ pc' \in {"SubpagesConverted", "AssetsCopied", "Done"}) =>
                /\ Len(calls') = 1
                /\ made' = {}
      ]_vars

C5_Witness ==
    /\ pc = "Done"
    /\ folder = NonePlaceholder
    /\ onDisk
    /\ \E p \in tree : endswith(Last(p), DotMd)
    /\ Len(calls) = 1

\* C6 (as stated): a run that ends with a recorded recoverable failure does
\* not report plain success.
C6_DegradedOutcomeReported ==
    (pc = "Done" /\ copyFailures # {}) => echoed # Success

\* C7 (as stated): the subpages are converted in lexical order of their paths.
C7_LexicalOrder ==
    \A i, j \in SubpageCalls :
        i < j => LexLeq(Flat(calls[i].src), Flat(calls[j].src))

\* C8: when loading the configuration fails the run ends in Failed with no
\* layout, no conversion, no destination directory, no asset copy and no
\* success report, and nothing runs afterwards.
C8_ConfigErrorFatal ==
    [][ /\ Terminal
        /\ (pc = "Idle" /\ err' # "") =>
                /\ pc' = "Failed"
                /\ ~layout'
                /\ calls' = <<>>
                /\ made' = {}
                /\ ~copied'
                /\ echoed' = ""
      ]_vars

C8_Witness ==
    /\ pc = "Failed"
    /\ err = "ConfigError"
    /\ folder = Docs
    /\ tree # {}

\* C9: in a run that reaches Done after walking the subpages folder, the
\* converter was called once for the home page and once for every file of
\* the folder whose name ends in ".md", and for nothing else.
C9_ConvertedExactlyOnce ==
    (pc = "Done" /\ ~NothingToWalk) =>
        /\ Len(calls) >= 1
        /\ calls[1] = Call(<<SourceRepo, home_page_source>>,
                           <<destination_folder, IndexMd>>)
        /\ \A i \in SubpageCalls : RelOf(calls[i]) \in tree
        /\ \A p \in tree :
            Cardinality({i \in SubpageCalls :
                            calls[i].src = <<SourceRepo, folder>> \o p})
                = IF endswith(Last(p), DotMd) THEN 1 ELSE 0

C9_Witness ==
    /\ pc = "Done"
    /\ Len(calls) = 2
    /\ Cardinality(tree) = 2
    /\ \E p \in tree : Last(p) = <<"a", "m", "d">>

\* C10 (as stated): no two conversion calls of a run have the same destination.
C10_DestinationsDisjoint ==
    \A i, j \in 1..Len(calls) : i # j => calls[i].dst # calls[j].dst

====
